---- MODULE Spec2Model ----
(***************************************************************************)
(* A model of contracts/SentencingFHE.sol: the encrypted case ledger, its  *)
(* asynchronous decryption-oracle protocol and the per-judge homomorphic   *)
(* accumulator.  Every public mutating function of the contract is one     *)
(* action; a call that reverts leaves the contract storage unchanged and   *)
(* only records its outcome in lastCall.                                   *)
(***************************************************************************)
EXTENDS Integers, Sequences, FiniteSets, TLC

VARIABLES
    caseCount,            \* uint256 public caseCount
    encryptedCases,       \* mapping(uint256 => EncryptedCase)
    decryptedCases,       \* mapping(uint256 => DecryptedCase)
    encryptedJudgeStats,  \* mapping(string => euint32)
    judgeList,            \* string[] judgeList
    requestToCaseId,      \* mapping(uint256 => uint256)
    oracleRequests,       \* the oracle's log: request id i is oracleRequests[i]
    now,                  \* block.timestamp
    lastCall,             \* the most recent call: function, arguments, outcome
    emitted,              \* the events the most recent call emitted
    finalizedRequests     \* history: request ids whose analyzeCase succeeded

storage == <<caseCount, encryptedCases, decryptedCases, encryptedJudgeStats,
             judgeList, requestToCaseId>>

vars == <<caseCount, encryptedCases, decryptedCases, encryptedJudgeStats,
          judgeList, requestToCaseId, oracleRequests, now, lastCall, emitted,
          finalizedRequests>>

----------------------------------------------------------------------------
(* Bounds of the model *)

MaxCases == 2
MaxRequests == 2

(* Input alphabets *)

Judges == {"A", "B"}
Charges == {"Theft"}
Sentences == {10}
StatsCounts == {1}
Timestamps == {100}

(* The ciphertext handles of the n-th submission: every handle distinct, as *)
(* the handles of separate encryptions are.                                 *)
InputHandles(n) == {<<3 * n - 2, 3 * n - 1, 3 * n>>}

----------------------------------------------------------------------------
(* Ciphertext handles (euint32): 0 is the uninitialized handle; an          *)
(* initialized handle stands for the encryption of one 32-bit plaintext.    *)

(* A count wraps at 2^32, which no run of a bounded number of calls reaches  *)
(* (each call adds at most one); the plaintexts are kept as naturals.       *)

NoHandle == 0

FHE_isInitialized(h) == h # NoHandle

FHE_asEuint32(v) == v + 1

FHE_decrypt(h) == h - 1

FHE_add(a, b) == FHE_asEuint32(FHE_decrypt(a) + FHE_decrypt(b))

FHE_toBytes32(h) == h

(* Variant: the hash of a judge id falls among the case ids.                *)
bytes32ToUint_AmongCaseIds(judgeId) ==
    CASE judgeId = "A" -> 1
      [] judgeId = "B" -> 2
      [] OTHER -> 0

(* keccak256(abi.encodePacked(judgeId)) read as a uint256: injective on the *)
(* judge identifiers and far outside the range of case ids.                 *)
bytes32ToUint(judgeId) ==
    CASE judgeId = "A" -> 1001
      [] judgeId = "B" -> 1002
      [] OTHER -> 1000

JudgeHashes == {bytes32ToUint(j) : j \in Judges}

(* The keys of the case mappings that a run can touch, and the request ids  *)
(* the oracle can issue or a caller can replay.                             *)
StorageIds == (0..MaxCases) \cup JudgeHashes
RequestIdInputs == 1..MaxRequests

(* The ids a caller asks analysis for: the assigned ids, and of the ids     *)
(* never assigned the two kinds there are, 0 and the next id to be assigned.*)
CaseIdInputs == {i \in 0..MaxCases : i <= caseCount + 1}

----------------------------------------------------------------------------
(* Storage defaults and struct literals *)

EmptyEncryptedCase ==
    [id |-> 0, encryptedCharge |-> NoHandle, encryptedSentence |-> NoHandle,
     encryptedJudgeId |-> NoHandle, timestamp |-> 0]

EmptyDecryptedCase ==
    [charge |-> "", sentence |-> 0, judgeId |-> "", isAnalyzed |-> FALSE]

(* Callback payloads: the ABI encoding of (string, uint256, string), the    *)
(* ABI encoding of one uint32, or bytes that decode as neither.             *)
CaseCleartext(c, s, j) ==
    [kind |-> "case", charge |-> c, sentence |-> s, judgeId |-> j, count |-> 0]

StatsCleartext(n) ==
    [kind |-> "stats", charge |-> "", sentence |-> 0, judgeId |-> "", count |-> n]

Malformed ==
    [kind |-> "malformed", charge |-> "", sentence |-> 0, judgeId |-> "", count |-> 0]

NoCleartext ==
    [kind |-> "none", charge |-> "", sentence |-> 0, judgeId |-> "", count |-> 0]

Cleartexts ==
    {CaseCleartext(c, s, j) : c \in Charges, s \in Sentences, j \in Judges}
    \cup {StatsCleartext(n) : n \in StatsCounts}
    \cup {Malformed}

(* The payloads tried with a proof that does not verify, one of each       *)
(* well-formed shape: the callbacks reject the proof before they read the   *)
(* payload.                                                                 *)
ForgedCleartexts == {CaseCleartext("Theft", 10, "A"), StatsCleartext(1)}

(* A call: the function, its arguments, its outcome (ok or the revert       *)
(* reason) and the values it returned; args holds the arguments of a view.  *)
Call(op, id, judge, cleartexts, proofOk, result) ==
    [op |-> op, id |-> id, judge |-> judge, cleartexts |-> cleartexts,
     proofOk |-> proofOk, result |-> result, args |-> <<>>, ret |-> <<>>,
     steps |-> <<>>]


Event(name, id, timestamp) == [name |-> name, id |-> id, timestamp |-> timestamp]

----------------------------------------------------------------------------
(* The decryption oracle (FHE.requestDecryption / FHE.checkSignatures).     *)
(* It numbers its requests 1, 2, ... and remembers the handles of each.     *)

OracleRequest(handles, selector) == [handles |-> handles, selector |-> selector]

NextRequestId == Len(oracleRequests) + 1

(* The cleartexts the oracle signs for a request: for the three handles of  *)
(* a case any (charge, sentence, judgeId) payload, the plaintexts of case   *)
(* handles being unknown to the contract, or bytes of another schema than   *)
(* the callback decodes; for the one handle of a judge accumulator the      *)
(* count that handle encrypts.                                              *)
OracleSigns(requestId, cleartexts) ==
    /\ requestId \in 1..Len(oracleRequests)
    /\ LET hs == oracleRequests[requestId].handles IN
       IF Len(hs) = 3
       THEN cleartexts.kind \in {"case", "malformed"}
       ELSE /\ FHE_isInitialized(hs[1])
            /\ cleartexts = StatsCleartext(FHE_decrypt(hs[1]))

(* FHE.checkSignatures(requestId, cleartexts, proof): passes exactly for a  *)
(* proof carrying the oracle's signatures over (requestId, cleartexts).     *)
FHE_checkSignatures(requestId, cleartexts, proofOk) ==
    proofOk /\ OracleSigns(requestId, cleartexts)

(* abi.decode(cleartexts, (string, uint256, string)) reverts unless the     *)
(* bytes are such an encoding.                                              *)
DecodesAsCase(cleartexts) == cleartexts.kind = "case"

(* abi.decode(cleartexts, (uint32)) reads the first word: a count, or the   *)
(* head offset 96 of an encoded (string, uint256, string).                  *)
DecodesAsUint32(cleartexts) == cleartexts.kind \in {"stats", "case"}

DecodeUint32(cleartexts) ==
    IF cleartexts.kind = "stats" THEN cleartexts.count ELSE 96

----------------------------------------------------------------------------
TypeOK ==
    /\ caseCount \in 0..MaxCases
    /\ DOMAIN encryptedCases = StorageIds
    /\ DOMAIN decryptedCases = StorageIds
    /\ DOMAIN encryptedJudgeStats = Judges
    /\ judgeList \in Seq(Judges)
    /\ DOMAIN requestToCaseId = RequestIdInputs
    /\ \A r \in RequestIdInputs : requestToCaseId[r] \in StorageIds
    /\ Len(oracleRequests) <= MaxRequests
    /\ now \in {0} \cup Timestamps
    /\ finalizedRequests \subseteq RequestIdInputs

Init ==
    /\ caseCount = 0
    /\ encryptedCases = [i \in StorageIds |-> EmptyEncryptedCase]
    /\ decryptedCases = [i \in StorageIds |-> EmptyDecryptedCase]
    /\ encryptedJudgeStats = [j \in Judges |-> NoHandle]
    /\ judgeList = <<>>
    /\ requestToCaseId = [r \in RequestIdInputs |-> 0]
    /\ oracleRequests = <<>>
    /\ now = 0
    /\ lastCall = Call("constructor", 0, "", NoCleartext, FALSE, "ok")
    /\ emitted = <<>>
    /\ finalizedRequests = {}

(* Variant: a failing callback consumes its pending request.               *)
Reverted_ConsumesRequest(call) ==
    /\ lastCall' = [call EXCEPT !.cleartexts = NoCleartext, !.proofOk = FALSE]
    /\ emitted' = <<>>
    /\ requestToCaseId' =
          IF call.op = "analyzeCase" /\ call.id \in DOMAIN requestToCaseId
          THEN [requestToCaseId EXCEPT ![call.id] = 0]
          ELSE requestToCaseId
    /\ UNCHANGED <<caseCount, encryptedCases, decryptedCases, encryptedJudgeStats,
                   judgeList, oracleRequests, now, finalizedRequests>>

(* A call that reverts: storage, oracle log and event log keep their state. *)
(* Of its arguments the record keeps what decided the outcome, not the      *)
(* payload.                                                                 *)
Reverted(call) ==
    /\ lastCall' = [call EXCEPT !.cleartexts = NoCleartext, !.proofOk = FALSE]
    /\ emitted' = <<>>
    /\ UNCHANGED <<storage, oracleRequests, now, finalizedRequests>>

----------------------------------------------------------------------------
(* submitEncryptedCase(encryptedCharge, encryptedSentence, encryptedJudgeId) *)

NewEncryptedCase(newId, encryptedCharge, encryptedSentence, encryptedJudgeId, t) ==
    [id |-> newId, encryptedCharge |-> encryptedCharge,
     encryptedSentence |-> encryptedSentence,
     encryptedJudgeId |-> encryptedJudgeId, timestamp |-> t]

submitEncryptedCase ==
    \E h \in InputHandles(caseCount + 1), t \in Timestamps :
        LET newId == caseCount + 1
            encryptedCharge == h[1]
            encryptedSentence == h[2]
            encryptedJudgeId == h[3]
        IN
        /\ caseCount < MaxCases
        /\ t >= now
        /\ caseCount' = newId
        /\ encryptedCases' = [encryptedCases EXCEPT ![newId] =
              NewEncryptedCase(newId, encryptedCharge, encryptedSentence,
                               encryptedJudgeId, t)]
        /\ decryptedCases' = [decryptedCases EXCEPT ![newId] = EmptyDecryptedCase]
        /\ now' = t
        /\ emitted' = <<Event("CaseSubmitted", newId, t)>>
        /\ lastCall' = Call("submitEncryptedCase", newId, "", NoCleartext, FALSE, "ok")
        /\ UNCHANGED <<encryptedJudgeStats, judgeList, requestToCaseId,
                       oracleRequests, finalizedRequests>>

----------------------------------------------------------------------------
(* requestSentencingAnalysis(caseId) *)

CaseCiphertexts(caseId) ==
    LET c == encryptedCases[caseId] IN
    <<FHE_toBytes32(c.encryptedCharge), FHE_toBytes32(c.encryptedSentence),
      FHE_toBytes32(c.encryptedJudgeId)>>

(* The oracle takes every batch of initialized handles; whether it takes a  *)
(* batch holding an uninitialized handle is its own choice.                 *)
OracleMayReject(handles) ==
    \E k \in 1..Len(handles) : ~FHE_isInitialized(handles[k])

(* Variant: the "Already analyzed" require is missing. *)
requestSentencingAnalysisResult_NoAnalyzedGuard(caseId, oracleAccepts) ==
    IF ~oracleAccepts THEN "OracleRejected" ELSE "ok"

(* Variant: a request for a case with a recorded request is rejected.       *)
requestSentencingAnalysisResult_RejectsDuplicate(caseId, oracleAccepts) ==
    IF decryptedCases[caseId].isAnalyzed THEN "AlreadyAnalyzed"
    ELSE IF \E r \in RequestIdInputs : requestToCaseId[r] = caseId
         THEN "AlreadyRequested"
    ELSE IF ~oracleAccepts THEN "OracleRejected"
    ELSE "ok"

requestSentencingAnalysisResult(caseId, oracleAccepts) ==
    IF decryptedCases[caseId].isAnalyzed THEN "AlreadyAnalyzed"
    ELSE IF ~oracleAccepts THEN "OracleRejected"
    ELSE "ok"

requestSentencingAnalysisCall(caseId, oracleAccepts) ==
        LET result == requestSentencingAnalysisResult(caseId, oracleAccepts)
            call == Call("requestSentencingAnalysis", caseId, "", NoCleartext,
                         FALSE, result)
            reqId == NextRequestId
        IN
        /\ ~oracleAccepts => OracleMayReject(CaseCiphertexts(caseId))
        /\ IF result = "ok"
           THEN /\ Len(oracleRequests) < MaxRequests
                /\ oracleRequests' = Append(oracleRequests,
                      OracleRequest(CaseCiphertexts(caseId), "analyzeCase"))
                /\ requestToCaseId' = [requestToCaseId EXCEPT ![reqId] = caseId]
                /\ emitted' = <<Event("AnalysisRequested", caseId, 0)>>
                /\ lastCall' = call
                /\ UNCHANGED <<caseCount, encryptedCases, decryptedCases,
                               encryptedJudgeStats, judgeList, now,
                               finalizedRequests>>
           ELSE Reverted(call)

requestSentencingAnalysis ==
    \E caseId \in CaseIdInputs, oracleAccepts \in BOOLEAN :
        requestSentencingAnalysisCall(caseId, oracleAccepts)

----------------------------------------------------------------------------
(* analyzeCase(requestId, cleartexts, proof): the oracle's callback *)

(* Variant: FHE.checkSignatures is not called. *)
analyzeCaseResult_NoProofCheck(requestId, cleartexts, proofOk) ==
    LET caseId == requestToCaseId[requestId] IN
    IF caseId = 0 THEN "InvalidRequest"
    ELSE IF decryptedCases[caseId].isAnalyzed THEN "AlreadyAnalyzed"
    ELSE IF ~DecodesAsCase(cleartexts) THEN "DecodeError"
    ELSE "ok"

(* Variant: the "Already analyzed" require is missing. *)
analyzeCaseResult_NoAnalyzedGuard(requestId, cleartexts, proofOk) ==
    LET caseId == requestToCaseId[requestId] IN
    IF caseId = 0 THEN "InvalidRequest"
    ELSE IF ~FHE_checkSignatures(requestId, cleartexts, proofOk) THEN "ProofInvalid"
    ELSE IF ~DecodesAsCase(cleartexts) THEN "DecodeError"
    ELSE "ok"

(* Variant: the "Invalid request" require is missing. *)
analyzeCaseResult_NoRequestGuard(requestId, cleartexts, proofOk) ==
    LET caseId == requestToCaseId[requestId] IN
    IF decryptedCases[caseId].isAnalyzed THEN "AlreadyAnalyzed"
    ELSE IF ~FHE_checkSignatures(requestId, cleartexts, proofOk) THEN "ProofInvalid"
    ELSE IF ~DecodesAsCase(cleartexts) THEN "DecodeError"
    ELSE "ok"

(* Variant: a callback is refused while another request is recorded for    *)
(* its target.                                                              *)
analyzeCaseResult_RefusesWhenDuplicated(requestId, cleartexts, proofOk) ==
    LET caseId == requestToCaseId[requestId] IN
    IF caseId = 0 THEN "InvalidRequest"
    ELSE IF \E r \in RequestIdInputs \ {requestId} : requestToCaseId[r] = caseId
         THEN "InvalidRequest"
    ELSE IF decryptedCases[caseId].isAnalyzed THEN "AlreadyAnalyzed"
    ELSE IF ~FHE_checkSignatures(requestId, cleartexts, proofOk) THEN "ProofInvalid"
    ELSE IF ~DecodesAsCase(cleartexts) THEN "DecodeError"
    ELSE "ok"

analyzeCaseResult(requestId, cleartexts, proofOk) ==
    LET caseId == requestToCaseId[requestId] IN
    IF caseId = 0 THEN "InvalidRequest"
    ELSE IF decryptedCases[caseId].isAnalyzed THEN "AlreadyAnalyzed"
    ELSE IF ~FHE_checkSignatures(requestId, cleartexts, proofOk) THEN "ProofInvalid"
    ELSE IF ~DecodesAsCase(cleartexts) THEN "DecodeError"
    ELSE "ok"

(* Variant: the isAnalyzed flag is left unset. *)
DecodedCase_FlagUnset(cleartexts) ==
    [charge |-> cleartexts.charge, sentence |-> cleartexts.sentence,
     judgeId |-> cleartexts.judgeId, isAnalyzed |-> FALSE]

(* Variant: the decoded sentence is not stored. *)
DecodedCase_DropsSentence(cleartexts) ==
    [charge |-> cleartexts.charge, sentence |-> 0,
     judgeId |-> cleartexts.judgeId, isAnalyzed |-> TRUE]

DecodedCase(cleartexts) ==
    [charge |-> cleartexts.charge, sentence |-> cleartexts.sentence,
     judgeId |-> cleartexts.judgeId, isAnalyzed |-> TRUE]

(* Lines 103-110: create the judge's accumulator on first use, then add an  *)
(* encrypted one to it.                                                     *)
(* Variant: the incremented value is computed from a fresh zero, not from   *)
(* the stored accumulator (a lost update).                                  *)
JudgeStatsAfterCase_FromZero(stats, judgeId) ==
    [stats EXCEPT ![judgeId] = FHE_add(FHE_asEuint32(0), FHE_asEuint32(1))]

(* Variant: the accumulator is created when missing but never incremented. *)
JudgeStatsAfterCase_NoIncrement(stats, judgeId) ==
    IF FHE_isInitialized(stats[judgeId])
    THEN stats
    ELSE [stats EXCEPT ![judgeId] = FHE_asEuint32(0)]

JudgeStatsAfterCase(stats, judgeId) ==
    LET created == IF FHE_isInitialized(stats[judgeId])
                   THEN stats
                   ELSE [stats EXCEPT ![judgeId] = FHE_asEuint32(0)]
    IN [created EXCEPT ![judgeId] = FHE_add(created[judgeId], FHE_asEuint32(1))]

(* Variant: the judge is pushed on every analysis.                         *)
JudgeListAfterCase_AlwaysAppends(stats, list, judgeId) == Append(list, judgeId)

JudgeListAfterCase(stats, list, judgeId) ==
    IF FHE_isInitialized(stats[judgeId]) THEN list ELSE Append(list, judgeId)

(* The steps of a callback that passed its checks, in the order analyzeCase *)
(* performs them.                                                           *)
analyzeCaseSteps ==
    <<"decode", "writeProjection", "updateJudgeStats", "emitCaseAnalyzed">>

analyzeCaseCall(requestId, cleartexts, proofOk) ==
        LET result == analyzeCaseResult(requestId, cleartexts, proofOk)
            caseId == requestToCaseId[requestId]
            call == Call("analyzeCase", requestId, "", cleartexts, proofOk, result)
            dCase == DecodedCase(cleartexts)
        IN
        /\ proofOk => OracleSigns(requestId, cleartexts)
        /\ ~proofOk => cleartexts \in ForgedCleartexts
        /\ IF result = "ok"
           THEN /\ decryptedCases' = [decryptedCases EXCEPT ![caseId] = dCase]
                /\ encryptedJudgeStats' =
                      JudgeStatsAfterCase(encryptedJudgeStats, dCase.judgeId)
                /\ judgeList' =
                      JudgeListAfterCase(encryptedJudgeStats, judgeList, dCase.judgeId)
                /\ emitted' = <<Event("CaseAnalyzed", caseId, 0)>>
                /\ lastCall' = [call EXCEPT !.steps = analyzeCaseSteps]
                /\ finalizedRequests' = finalizedRequests \cup {requestId}
                /\ UNCHANGED <<caseCount, encryptedCases, requestToCaseId,
                               oracleRequests, now>>
           ELSE Reverted(call)

analyzeCase ==
    \E requestId \in RequestIdInputs, cleartexts \in Cleartexts, proofOk \in BOOLEAN :
        analyzeCaseCall(requestId, cleartexts, proofOk)

----------------------------------------------------------------------------
(* requestJudgeStatsDecryption(judgeId) *)

(* Variant: the request is served without looking at the accumulator.      *)
requestJudgeStatsDecryptionResult_NoGuard(judgeId) == "ok"

requestJudgeStatsDecryptionResult(judgeId) ==
    IF ~FHE_isInitialized(encryptedJudgeStats[judgeId]) THEN "NotFound" ELSE "ok"

requestJudgeStatsDecryption ==
    \E judgeId \in Judges :
        LET result == requestJudgeStatsDecryptionResult(judgeId)
            call == Call("requestJudgeStatsDecryption", 0, judgeId, NoCleartext,
                         FALSE, result)
            stats == encryptedJudgeStats[judgeId]
            reqId == NextRequestId
        IN
        IF result = "ok"
        THEN /\ Len(oracleRequests) < MaxRequests
             /\ oracleRequests' = Append(oracleRequests,
                   OracleRequest(<<FHE_toBytes32(stats)>>, "decryptJudgeStats"))
             /\ requestToCaseId' =
                   [requestToCaseId EXCEPT ![reqId] = bytes32ToUint(judgeId)]
             /\ emitted' = <<>>
             /\ lastCall' = call
             /\ UNCHANGED <<caseCount, encryptedCases, decryptedCases,
                            encryptedJudgeStats, judgeList, now, finalizedRequests>>
        ELSE Reverted(call)

----------------------------------------------------------------------------
(* decryptJudgeStats(requestId, cleartexts, proof): the oracle's callback *)

(* getJudgeFromHash: the first entry of judgeList whose hash is `hash`;     *)
(* NoJudge stands for its revert.                                           *)
NoJudge == ""

getJudgeFromHash_FirstJudge(hash) ==
    IF judgeList = <<>> THEN NoJudge ELSE judgeList[1]

getJudgeFromHash(hash) ==
    LET hits == {i \in 1..Len(judgeList) : bytes32ToUint(judgeList[i]) = hash} IN
    IF hits = {} THEN NoJudge
    ELSE judgeList[CHOOSE i \in hits : \A k \in hits : i <= k]

decryptJudgeStatsResult(requestId, cleartexts, proofOk) ==
    LET judgeHash == requestToCaseId[requestId] IN
    IF getJudgeFromHash(judgeHash) = NoJudge THEN "NotFound"
    ELSE IF ~FHE_checkSignatures(requestId, cleartexts, proofOk) THEN "ProofInvalid"
    ELSE IF ~DecodesAsUint32(cleartexts) THEN "DecodeError"
    ELSE "ok"

decryptJudgeStatsCall(requestId, cleartexts, proofOk) ==
        LET result == decryptJudgeStatsResult(requestId, cleartexts, proofOk)
            call == Call("decryptJudgeStats", requestId,
                         getJudgeFromHash(requestToCaseId[requestId]),
                         cleartexts, proofOk, result)
        IN
        /\ proofOk => OracleSigns(requestId, cleartexts)
        /\ ~proofOk => cleartexts \in ForgedCleartexts
        /\ IF result = "ok"
           THEN /\ lastCall' = call
                /\ emitted' = <<>>
                /\ UNCHANGED <<storage, oracleRequests, now, finalizedRequests>>
           ELSE Reverted(call)

decryptJudgeStats ==
    \E requestId \in RequestIdInputs, cleartexts \in Cleartexts, proofOk \in BOOLEAN :
        decryptJudgeStatsCall(requestId, cleartexts, proofOk)

----------------------------------------------------------------------------
Next ==
    \/ submitEncryptedCase
    \/ requestSentencingAnalysis
    \/ analyzeCase
    \/ requestJudgeStatsDecryption
    \/ decryptJudgeStats

Spec == Init /\ [][Next]_vars

(* The oracle delivering, for request requestId, a callback that succeeds:  *)
(* a valid proof over a well-formed case payload.                           *)
ValidDelivery(requestId) ==
    \E cleartexts \in Cleartexts :
        /\ DecodesAsCase(cleartexts)
        /\ analyzeCaseResult(requestId, cleartexts, TRUE) = "ok"
        /\ analyzeCaseCall(requestId, cleartexts, TRUE)

(* The contract with an oracle that does not withhold a valid callback      *)
(* for ever from a request that can take one.                               *)
FairSpec ==
    Spec /\ \A requestId \in RequestIdInputs : WF_vars(ValidDelivery(requestId))

----------------------------------------------------------------------------
(* Views *)

(* The protocol state of a case record, read off the storage: the contract  *)
(* keeps no state field.  A record exists once submitted; it is Analyzed    *)
(* when its projection says so, AnalysisRequested when a recorded request   *)
(* targets it, and Submitted otherwise.                                     *)
CaseStateIn(id, count, dCases, reqMap) ==
    IF id \notin 1..count THEN "None"
    ELSE IF dCases[id].isAnalyzed THEN "Analyzed"
    ELSE IF \E r \in RequestIdInputs : reqMap[r] = id THEN "AnalysisRequested"
    ELSE "Submitted"

CaseState(id) == CaseStateIn(id, caseCount, decryptedCases, requestToCaseId)

getDecryptedCase(caseId) ==
    LET c == decryptedCases[caseId] IN <<c.charge, c.sentence, c.judgeId, c.isAnalyzed>>

getEncryptedJudgeStats(judgeId) == encryptedJudgeStats[judgeId]

(* getEncryptedJudgeStats has no require: every call returns.               *)
getEncryptedJudgeStatsResult(judgeId) == "ok"

(* decryptJudgeStats declares no return value; the count it decodes is a    *)
(* local that no statement reads.                                           *)
decryptJudgeStatsReturn(cleartexts) == <<>>

----------------------------------------------------------------------------
(* calculateSentencingStats(chargeType) and                                *)
(* detectSentencingDisparities(chargeType, judgeIds): the query engine      *)

(* type(uint256).max, the value minSentence starts from.  The number stands *)
(* for 2^256 - 1: it is above every sentence of the model, as 2^256 - 1 is  *)
(* above every sentence a ledger holds.                                     *)
Uint256Max == 2147483647

(* keccak256(abi.encodePacked(a)) == keccak256(abi.encodePacked(b)): the    *)
(* hashes of two strings agree exactly when the strings do.                 *)
SameString(a, b) == a = b

(* The loop of calculateSentencingStats from case i on; acc holds total,    *)
(* count, minSentence and maxSentence.                                      *)
RECURSIVE StatsLoop(_, _, _, _, _)
StatsLoop(i, acc, chargeType, count, dCases) ==
    IF i > count THEN acc
    ELSE LET c == dCases[i]
             s == c.sentence
             next == IF c.isAnalyzed /\ SameString(c.charge, chargeType)
                     THEN [total |-> acc.total + s,
                           count |-> acc.count + 1,
                           minSentence |-> IF s < acc.minSentence
                                           THEN s ELSE acc.minSentence,
                           maxSentence |-> IF s > acc.maxSentence
                                           THEN s ELSE acc.maxSentence]
                     ELSE acc
         IN StatsLoop(i + 1, next, chargeType, count, dCases)

StatsStart == [total |-> 0, count |-> 0, minSentence |-> Uint256Max, maxSentence |-> 0]

(* Variant: the loop stops one case early (i < caseCount).                  *)
calculateSentencingStatsIn_SkipsLastCase(chargeType, count, dCases) ==
    LET r == StatsLoop(1, StatsStart, chargeType, count - 1, dCases) IN
    <<IF r.count > 0 THEN r.total \div r.count ELSE 0, r.minSentence, r.maxSentence>>

(* Variant: the loop does not look at isAnalyzed.                           *)
calculateSentencingStatsIn_CountsUnanalyzed(chargeType, count, dCases) ==
    LET all == [i \in DOMAIN dCases |-> [dCases[i] EXCEPT !.isAnalyzed = TRUE]]
        r == StatsLoop(1, StatsStart, chargeType, count, all) IN
    <<IF r.count > 0 THEN r.total \div r.count ELSE 0, r.minSentence, r.maxSentence>>

(* Variant: minSentence is the sentence of the matching case scanned last.  *)
calculateSentencingStatsIn_MinIsLastScanned(chargeType, count, dCases) ==
    LET r == StatsLoop(1, StatsStart, chargeType, count, dCases)
        M == {i \in 1..count :
                 dCases[i].isAnalyzed /\ SameString(dCases[i].charge, chargeType)}
        last == CHOOSE i \in M : \A k \in M : k <= i
    IN
    <<IF r.count > 0 THEN r.total \div r.count ELSE 0,
      IF M = {} THEN r.minSentence ELSE dCases[last].sentence,
      r.maxSentence>>

(* The returned (avgSentence, minSentence, maxSentence) over a ledger of    *)
(* `count` cases with projections dCases.                                   *)
calculateSentencingStatsIn(chargeType, count, dCases) ==
    LET r == StatsLoop(1, StatsStart, chargeType, count, dCases) IN
    <<IF r.count > 0 THEN r.total \div r.count ELSE 0, r.minSentence, r.maxSentence>>

calculateSentencingStats(chargeType) ==
    calculateSentencingStatsIn(chargeType, caseCount, decryptedCases)

(* The inner loop of detectSentencingDisparities from case j on, for one    *)
(* judge; acc holds total and count.                                        *)
RECURSIVE JudgeLoop(_, _, _, _, _, _)
JudgeLoop(j, acc, chargeType, judgeId, count, dCases) ==
    IF j > count THEN acc
    ELSE LET c == dCases[j]
             next == IF /\ c.isAnalyzed
                        /\ SameString(c.charge, chargeType)
                        /\ SameString(c.judgeId, judgeId)
                     THEN [total |-> acc.total + c.sentence, count |-> acc.count + 1]
                     ELSE acc
         IN JudgeLoop(j + 1, next, chargeType, judgeId, count, dCases)

JudgeAverage(chargeType, judgeId, count, dCases) ==
    LET r == JudgeLoop(1, [total |-> 0, count |-> 0], chargeType, judgeId,
                       count, dCases)
    IN IF r.count > 0 THEN r.total \div r.count ELSE 0

(* Variant: every judge gets the average of the whole charge.               *)
detectSentencingDisparitiesIn_IgnoresJudge(chargeType, judgeIds, count, dCases) ==
    <<judgeIds,
      [i \in 1..Len(judgeIds) |->
          calculateSentencingStatsIn(chargeType, count, dCases)[1]]>>

(* The returned (judges, avgSentences), two arrays as long as judgeIds.     *)
detectSentencingDisparitiesIn(chargeType, judgeIds, count, dCases) ==
    <<[i \in 1..Len(judgeIds) |-> judgeIds[i]],
      [i \in 1..Len(judgeIds) |->
          JudgeAverage(chargeType, judgeIds[i], count, dCases)]>>

detectSentencingDisparities(chargeType, judgeIds) ==
    detectSentencingDisparitiesIn(chargeType, judgeIds, caseCount, decryptedCases)

----------------------------------------------------------------------------
(* The query engine over ledgers: the ledger is drawn from the states that  *)
(* submitting n cases, requesting the analysis of each in turn and          *)
(* finalizing some of the requests in turn leaves, and the views are called *)
(* on it.                                                                   *)

QueryMaxCases == 3

QueryCharges == {"Theft", "Fraud"}
QuerySentences == {10, 20, 30}
QueryIds == (0..QueryMaxCases) \cup JudgeHashes

(* Arguments of the views. *)
ChargeArgs == {"Theft", "theft", ""}
DisparityChargeArgs == {"Theft"}
JudgeIdsArgs == {<<>>, <<"A", "B">>, <<"B", "C", "B">>}

LedgerProjections ==
    {EmptyDecryptedCase} \cup
    {DecodedCase(CaseCleartext(c, s, j)) :
        c \in QueryCharges, s \in QuerySentences, j \in Judges}

(* Judges in the order of their first analyzed case. *)
RECURSIVE LedgerJudgeList(_, _, _)
LedgerJudgeList(i, n, proj) ==
    IF i > n THEN <<>>
    ELSE LET rest == LedgerJudgeList(i + 1, n, proj)
             j == proj[i].judgeId
         IN IF proj[i].isAnalyzed
            THEN <<j>> \o SelectSeq(rest, LAMBDA x : x # j)
            ELSE rest

LedgerInit ==
    \E n \in 0..QueryMaxCases :
    \E proj \in [1..n -> LedgerProjections] :
        LET analyzed == {i \in 1..n : proj[i].isAnalyzed}
            handles(i) == CHOOSE h \in InputHandles(i) : TRUE
        IN
        /\ caseCount = n
        /\ encryptedCases =
              [i \in QueryIds |->
                  IF i \in 1..n
                  THEN NewEncryptedCase(i, handles(i)[1], handles(i)[2],
                                        handles(i)[3],
                                        CHOOSE t \in Timestamps : TRUE)
                  ELSE EmptyEncryptedCase]
        /\ decryptedCases =
              [i \in QueryIds |-> IF i \in 1..n THEN proj[i] ELSE EmptyDecryptedCase]
        /\ encryptedJudgeStats =
              [j \in Judges |->
                  LET k == Cardinality({i \in analyzed : proj[i].judgeId = j}) IN
                  IF k = 0 THEN NoHandle ELSE FHE_asEuint32(k)]
        /\ judgeList = LedgerJudgeList(1, n, proj)
        /\ requestToCaseId = [r \in 1..QueryMaxCases |-> IF r <= n THEN r ELSE 0]
        /\ oracleRequests =
              [r \in 1..n |->
                  OracleRequest(<<FHE_toBytes32(handles(r)[1]),
                                  FHE_toBytes32(handles(r)[2]),
                                  FHE_toBytes32(handles(r)[3])>>, "analyzeCase")]
        /\ now = IF n = 0 THEN 0 ELSE CHOOSE t \in Timestamps : TRUE
        /\ lastCall = Call("constructor", 0, "", NoCleartext, FALSE, "ok")
        /\ emitted = <<>>
        /\ finalizedRequests = analyzed

(* Variant: reading clears the projection of the newest case.              *)
ViewCall_ClearsProjection(op, args, ret) ==
    /\ lastCall' = [Call(op, 0, "", NoCleartext, FALSE, "ok")
                       EXCEPT !.args = args, !.ret = ret]
    /\ emitted' = <<>>
    /\ decryptedCases' = [decryptedCases EXCEPT ![caseCount] = EmptyDecryptedCase]
    /\ UNCHANGED <<caseCount, encryptedCases, encryptedJudgeStats, judgeList,
                   requestToCaseId, oracleRequests, now, finalizedRequests>>

(* A view called from outside: it returns, and nothing is written. *)
ViewCall(op, args, ret) ==
    /\ lastCall' = [Call(op, 0, "", NoCleartext, FALSE, "ok")
                       EXCEPT !.args = args, !.ret = ret]
    /\ emitted' = <<>>
    /\ UNCHANGED <<storage, oracleRequests, now, finalizedRequests>>

getDecryptedCaseView ==
    \E caseId \in {i \in 0..QueryMaxCases : i <= caseCount + 1} :
        ViewCall("getDecryptedCase", <<caseId>>, getDecryptedCase(caseId))

calculateSentencingStatsView ==
    \E chargeType \in ChargeArgs :
        ViewCall("calculateSentencingStats", <<chargeType>>,
                 calculateSentencingStats(chargeType))

detectSentencingDisparitiesView ==
    \E chargeType \in DisparityChargeArgs, judgeIds \in JudgeIdsArgs :
        ViewCall("detectSentencingDisparities", <<chargeType, judgeIds>>,
                 detectSentencingDisparities(chargeType, judgeIds))

QueryNext ==
    \/ getDecryptedCaseView
    \/ calculateSentencingStatsView
    \/ detectSentencingDisparitiesView

QuerySpec == LedgerInit /\ [][QueryNext]_vars

----------------------------------------------------------------------------
(* Properties *)

RECURSIVE SumOver(_, _)
SumOver(f, S) ==
    IF S = {} THEN 0
    ELSE LET x == CHOOSE y \in S : TRUE IN f[x] + SumOver(f, S \ {x})

(* The plaintext count of each judge's accumulator, 0 where none exists. *)
DecryptedJudgeStats ==
    [j \in Judges |-> IF FHE_isInitialized(encryptedJudgeStats[j])
                      THEN FHE_decrypt(encryptedJudgeStats[j]) ELSE 0]

AnalyzedProjections == {i \in StorageIds : decryptedCases[i].isAnalyzed}

AnalyzedCases == {i \in 1..caseCount : CaseState(i) = "Analyzed"}

(* C1: in every reachable state the decrypted accumulators of all judges    *)
(* sum to the number of case records in state Analyzed.                     *)
C1_AccumulatorSumIsAnalyzedCount ==
    SumOver(DecryptedJudgeStats, Judges) = Cardinality(AnalyzedCases)

(* The same with the count taken over every projection marked analyzed,     *)
(* whether or not a case record was submitted under its id.                 *)
AccumulatorSumIsAnalyzedProjections ==
    SumOver(DecryptedJudgeStats, Judges) = Cardinality(AnalyzedProjections)

(* C2: an analyzeCase callback whose proof fails verification, for a        *)
(* recorded request whose target is not analyzed, fails with ProofInvalid   *)
(* and changes no storage: the target keeps its state (AnalysisRequested    *)
(* for a case record), its projection stays empty, and no accumulator and   *)
(* no judgeList entry is created or changed.                                *)
C2_InvalidProofFailsClosed ==
    [][\A r \in RequestIdInputs :
          LET target == requestToCaseId[r] IN
          (/\ lastCall'.op = "analyzeCase"
           /\ lastCall'.id = r
           /\ target # 0
           /\ ~decryptedCases[target].isAnalyzed
           /\ \E ct \in Cleartexts : analyzeCaseCall(r, ct, FALSE))
          => /\ lastCall'.result = "ProofInvalid"
             /\ UNCHANGED <<storage, oracleRequests, finalizedRequests>>
             /\ emitted' = <<>>
             /\ decryptedCases'[target] = EmptyDecryptedCase
             /\ (target \in 1..caseCount =>
                   CaseStateIn(target, caseCount', decryptedCases',
                               requestToCaseId') = "AnalysisRequested")
      ]_vars

C2_Witness ==
    /\ lastCall.op = "analyzeCase"
    /\ lastCall.result = "ProofInvalid"
    /\ CaseState(requestToCaseId[lastCall.id]) = "AnalysisRequested"
    /\ \E j \in Judges : FHE_isInitialized(encryptedJudgeStats[j])

(* C3: once analyzeCase has succeeded for a request id, every later         *)
(* analyzeCase with that request id fails with InvalidRequest and changes   *)
(* no storage.                                                              *)
C3_ReplayFailsInvalidRequest ==
    [][\A r \in finalizedRequests :
          (lastCall'.op = "analyzeCase" /\ lastCall'.id = r)
          => /\ lastCall'.result = "InvalidRequest"
             /\ UNCHANGED storage
      ]_vars

(* C4: the state of a case record only moves forward along Submitted ->     *)
(* AnalysisRequested -> Analyzed; once Analyzed the record stays Analyzed   *)
(* and its projection never changes, whatever is called, submit included.   *)
StateRank(st) ==
    CASE st = "Submitted" -> 1
      [] st = "AnalysisRequested" -> 2
      [] st = "Analyzed" -> 3
      [] OTHER -> 0

C5_RequestOnAnalyzedFails ==
    [][\A caseId \in 0..MaxCases :
          (/\ lastCall'.op = "requestSentencingAnalysis"
           /\ lastCall'.id = caseId
           /\ decryptedCases[caseId].isAnalyzed)
          => /\ lastCall'.result = "AlreadyAnalyzed"
             /\ oracleRequests' = oracleRequests
             /\ requestToCaseId' = requestToCaseId
             /\ emitted' = <<>>
             /\ UNCHANGED storage
      ]_vars

C5_Witness ==
    /\ lastCall.op = "requestSentencingAnalysis"
    /\ lastCall.result = "AlreadyAnalyzed"
    /\ CaseState(lastCall.id) = "Analyzed"
    /\ Len(oracleRequests) < MaxRequests

(* C6: requestSentencingAnalysis for an id never assigned by submit (0, or  *)
(* above caseCount) fails with NotFound, issues no oracle request and       *)
(* records no pending request.                                              *)
C6_RequestOnUnknownFailsNotFound ==
    [][\A caseId \in 0..MaxCases :
          (/\ lastCall'.op = "requestSentencingAnalysis"
           /\ lastCall'.id = caseId
           /\ caseId \notin 1..caseCount)
          => /\ lastCall'.result = "NotFound"
             /\ oracleRequests' = oracleRequests
             /\ requestToCaseId' = requestToCaseId
      ]_vars

(* C7: an analyzeCase callback with a request id no request was ever        *)
(* recorded under fails with InvalidRequest, and one whose recorded target  *)
(* is already analyzed fails with AlreadyAnalyzed; neither changes storage. *)
C7_UnknownOrAnalyzedCallbackFails ==
    [][\A r \in RequestIdInputs :
          (lastCall'.op = "analyzeCase" /\ lastCall'.id = r)
          => /\ r > Len(oracleRequests) =>
                   /\ lastCall'.result = "InvalidRequest"
                   /\ UNCHANGED <<storage, oracleRequests, finalizedRequests>>
                   /\ emitted' = <<>>
             /\ (/\ r <= Len(oracleRequests)
                 /\ requestToCaseId[r] # 0
                 /\ decryptedCases[requestToCaseId[r]].isAnalyzed) =>
                   /\ lastCall'.result = "AlreadyAnalyzed"
                   /\ UNCHANGED <<storage, oracleRequests, finalizedRequests>>
                   /\ emitted' = <<>>
      ]_vars

C7_Witness ==
    /\ lastCall.op = "analyzeCase"
    /\ lastCall.result = "AlreadyAnalyzed"
    /\ CaseState(requestToCaseId[lastCall.id]) = "Analyzed"
    /\ lastCall.id \notin finalizedRequests

C7_WitnessUnknownRequest ==
    /\ lastCall.op = "analyzeCase"
    /\ lastCall.result = "InvalidRequest"
    /\ lastCall.id > Len(oracleRequests)
    /\ caseCount > 0

(* C8: getDecryptedCase of an id returns analyzed = false with empty        *)
(* charge, zero sentence and empty judgeId in every state in which no       *)
(* analyzeCase for that id has succeeded; a field is non-default only when  *)
(* analyzed is true, and analyzed is true only after such a success.        *)
C8_ProjectionEmptyBeforeFinalize ==
    \A id \in StorageIds :
        LET view == getDecryptedCase(id) IN
        /\ view[4] = FALSE => view = <<"", 0, "", FALSE>>
        /\ (\A r \in finalizedRequests : requestToCaseId[r] # id)
              => view = <<"", 0, "", FALSE>>
        /\ id \in 1..caseCount => (view[4] = TRUE <=> CaseState(id) = "Analyzed")

C8_Witness ==
    \E id \in 1..caseCount, other \in 1..caseCount :
        /\ CaseState(id) = "AnalysisRequested"
        /\ getDecryptedCase(id) = <<"", 0, "", FALSE>>
        /\ CaseState(other) = "Analyzed"
        /\ getDecryptedCase(other)[4] = TRUE

(* C9: submit always succeeds and assigns the ids 1, 2, 3, ... in call      *)
(* order: the call moves caseCount up by exactly one, creates the record    *)
(* under the new caseCount in state Submitted with an empty projection,     *)
(* and leaves every record submitted before as it was; nothing else moves   *)
(* caseCount.                                                               *)
C9_SubmitAssignsNextId ==
    [][/\ submitEncryptedCase =>
             /\ lastCall'.result = "ok"
             /\ caseCount' = caseCount + 1
             /\ lastCall'.id = caseCount'
             /\ encryptedCases'[caseCount'].id = caseCount'
             /\ decryptedCases'[caseCount'] = EmptyDecryptedCase
             /\ CaseStateIn(caseCount', caseCount', decryptedCases',
                            requestToCaseId') = "Submitted"
             /\ \A id \in 1..caseCount :
                   /\ encryptedCases'[id] = encryptedCases[id]
                   /\ decryptedCases'[id] = decryptedCases[id]
       /\ caseCount' # caseCount => submitEncryptedCase
      ]_vars

(* The part of C9 that does not speak of the protocol state. *)
SubmitAssignsNextIdEmptyProjection ==
    [][/\ submitEncryptedCase =>
             /\ lastCall'.result = "ok"
             /\ caseCount' = caseCount + 1
             /\ lastCall'.id = caseCount'
             /\ encryptedCases'[caseCount'].id = caseCount'
             /\ decryptedCases'[caseCount'] = EmptyDecryptedCase
             /\ \A id \in 1..caseCount :
                   /\ encryptedCases'[id] = encryptedCases[id]
                   /\ decryptedCases'[id] = decryptedCases[id]
       /\ caseCount' # caseCount => submitEncryptedCase
      ]_vars

----------------------------------------------------------------------------
(* C11: requestJudgeStatsDecryption(judgeId) fails with NotFound, sending   *)
(* no oracle request and recording no pending request, whenever no analysis *)
(* has ever decoded judgeId, and succeeds whenever one has.  A judge's      *)
(* accumulator is initialized by exactly the steps that are, or follow, a   *)
(* successful analyzeCase decoding that judge (none is in Init), and the    *)
(* request's outcome follows the accumulator.                               *)
C11_JudgeStatsRequestFollowsAnalysis ==
    [][\A j \in Judges :
          LET had == FHE_isInitialized(encryptedJudgeStats[j])
              has == FHE_isInitialized(encryptedJudgeStats'[j])
              analyzedNow == /\ lastCall'.op = "analyzeCase"
                             /\ lastCall'.result = "ok"
                             /\ lastCall'.cleartexts.judgeId = j
          IN
          /\ has <=> (had \/ analyzedNow)
          /\ (lastCall'.op = "requestJudgeStatsDecryption" /\ lastCall'.judge = j)
                => IF had
                   THEN /\ lastCall'.result = "ok"
                        /\ Len(oracleRequests') = Len(oracleRequests) + 1
                        /\ requestToCaseId'[NextRequestId] = bytes32ToUint(j)
                   ELSE /\ lastCall'.result = "NotFound"
                        /\ UNCHANGED <<storage, oracleRequests>>
      ]_vars

(* C11 witness: a request for an analyzed judge has succeeded while the     *)
(* other judge, never analyzed, has no accumulator.                         *)
C11_Witness ==
    /\ lastCall.op = "requestJudgeStatsDecryption"
    /\ lastCall.result = "ok"
    /\ \E j \in Judges : ~FHE_isInitialized(encryptedJudgeStats[j])
    /\ \E r \in RequestIdInputs : requestToCaseId[r] = bytes32ToUint(lastCall.judge)

(* C11 witness of the failing side: a request has failed with NotFound      *)
(* after an analysis of the other judge.                                    *)
C11_WitnessNotFound ==
    /\ lastCall.op = "requestJudgeStatsDecryption"
    /\ lastCall.result = "NotFound"
    /\ \E j \in Judges : FHE_isInitialized(encryptedJudgeStats[j])

----------------------------------------------------------------------------
(* C12: after a successful decryptJudgeStats the decrypted count is         *)
(* surfaced: it is among the values the call returns, or the call wrote     *)
(* storage or emitted an event that could carry it.                         *)
C12_DecryptedCountSurfaced ==
    [][(lastCall'.op = "decryptJudgeStats" /\ lastCall'.result = "ok")
          => LET count == DecodeUint32(lastCall'.cleartexts)
                 returned == decryptJudgeStatsReturn(lastCall'.cleartexts)
             IN \/ \E i \in 1..Len(returned) : returned[i] = count
                \/ storage' # storage
                \/ emitted' # <<>>
      ]_vars

(* C13: a pending request is removed when its callback succeeds, and a      *)
(* second decryptJudgeStats with the same requestId fails: in the state a   *)
(* successful decryptJudgeStats leaves, the requestToCaseId entry of its    *)
(* request is cleared and no decryptJudgeStats for that requestId can       *)
(* succeed.  (C3 is the same for analyzeCase.)                              *)
C13_PendingConsumedOnSuccess ==
    (lastCall.op = "decryptJudgeStats" /\ lastCall.result = "ok")
        => /\ requestToCaseId[lastCall.id] = 0
           /\ \A ct \in Cleartexts, proofOk \in BOOLEAN :
                 decryptJudgeStatsResult(lastCall.id, ct, proofOk) # "ok"

(* C14: getEncryptedJudgeStats fails with NotFound for a judge without an   *)
(* accumulator, and never returns an uninitialized handle as a success.     *)
C14_AccumulatorHandleNotFound ==
    \A j \in Judges :
        /\ ~FHE_isInitialized(encryptedJudgeStats[j])
              => getEncryptedJudgeStatsResult(j) = "NotFound"
        /\ getEncryptedJudgeStatsResult(j) = "ok"
              => FHE_isInitialized(getEncryptedJudgeStats(j))

----------------------------------------------------------------------------
(* Query properties, checked under QuerySpec *)

(* The analyzed cases of the ledger whose charge is chargeType. *)
MatchingCases(chargeType) ==
    {i \in 1..caseCount :
        decryptedCases[i].isAnalyzed /\ decryptedCases[i].charge = chargeType}

SentenceOf == [i \in 1..caseCount |-> decryptedCases[i].sentence]

FloorAverage(M) == SumOver(SentenceOf, M) \div Cardinality(M)

LeastSentence(M) ==
    CHOOSE m \in {SentenceOf[i] : i \in M} : \A i \in M : m <= SentenceOf[i]

GreatestSentence(M) ==
    CHOOSE m \in {SentenceOf[i] : i \in M} : \A i \in M : m >= SentenceOf[i]

(* C15: with at least one matching case, calculateSentencingStats returns   *)
(* the floor of sum/count, the least and the greatest sentence over exactly *)
(* the analyzed cases whose charge equals chargeType.                       *)
C15_StatsOverMatchingCases ==
    [][lastCall'.op = "calculateSentencingStats"
          => LET M == MatchingCases(lastCall'.args[1]) IN
             M # {} => lastCall'.ret =
                          <<FloorAverage(M), LeastSentence(M), GreatestSentence(M)>>
      ]_vars

(* C15 witness: three analyzed Theft cases with sentences 10, 20 and 30     *)
(* have yielded avg 20, min 10, max 30.                                     *)
C15_Witness ==
    /\ lastCall.op = "calculateSentencingStats"
    /\ lastCall.args = <<"Theft">>
    /\ lastCall.ret = <<20, 10, 30>>
    /\ caseCount = 3
    /\ \A i \in 1..3 : /\ decryptedCases[i].isAnalyzed
                       /\ decryptedCases[i].charge = "Theft"
                       /\ decryptedCases[i].sentence = 10 * i

(* C15 witness of the filter: with an unanalyzed or differently charged    *)
(* case beside them, two Theft cases have been averaged alone.              *)
C15_WitnessFilter ==
    /\ lastCall.op = "calculateSentencingStats"
    /\ lastCall.args = <<"Theft">>
    /\ lastCall.ret = <<15, 10, 20>>
    /\ \E i \in 1..caseCount : decryptedCases[i].charge = "Fraud"
    /\ Cardinality(MatchingCases("Theft")) = 2

(* C15 witness of the floor: sentences 10, 10 and 20 have yielded 13.       *)
C15_WitnessFloor ==
    /\ lastCall.op = "calculateSentencingStats"
    /\ lastCall.args = <<"Theft">>
    /\ lastCall.ret = <<13, 10, 20>>
    /\ Cardinality(MatchingCases("Theft")) = 3

(* C16: with no matching case, calculateSentencingStats returns avg 0 and   *)
(* never the value minSentence starts from as the minimum.                  *)
C16_NoMatchNoSentinel ==
    [][lastCall'.op = "calculateSentencingStats"
          => (MatchingCases(lastCall'.args[1]) = {}
                => /\ lastCall'.ret[1] = 0
                   /\ lastCall'.ret[2] # Uint256Max)
      ]_vars

(* The floor average of judgeId's matching cases, 0 where there is none. *)
JudgeFloorAverage(chargeType, judgeId) ==
    LET M == {i \in MatchingCases(chargeType) : decryptedCases[i].judgeId = judgeId}
    IN IF M = {} THEN 0 ELSE FloorAverage(M)

(* C17: detectSentencingDisparities returns arrays as long as judgeIds      *)
(* whose i-th entries are judgeIds[i] and that judge's floor average over   *)
(* the analyzed cases matching charge and judge, 0 where there is none;     *)
(* order is kept and equal judge ids get equal entries.                     *)
C17_DisparitiesPerJudge ==
    [][lastCall'.op = "detectSentencingDisparities"
          => LET chargeType == lastCall'.args[1]
                 judgeIds == lastCall'.args[2]
                 judges == lastCall'.ret[1]
                 avgSentences == lastCall'.ret[2]
             IN /\ Len(judges) = Len(judgeIds)
                /\ Len(avgSentences) = Len(judgeIds)
                /\ \A i \in 1..Len(judgeIds) :
                      /\ judges[i] = judgeIds[i]
                      /\ avgSentences[i] = JudgeFloorAverage(chargeType, judgeIds[i])
                /\ \A i, k \in 1..Len(judgeIds) :
                      judgeIds[i] = judgeIds[k]
                         => /\ judges[i] = judges[k]
                            /\ avgSentences[i] = avgSentences[k]
      ]_vars

(* C17 witness: Theft cases with sentences 10, 20, 30 of judges A, A, B     *)
(* have yielded (A, 15), (B, 30).                                           *)
C17_Witness ==
    /\ lastCall.op = "detectSentencingDisparities"
    /\ lastCall.args = <<"Theft", <<"A", "B">>>>
    /\ lastCall.ret = <<(<<"A", "B">>), (<<15, 30>>)>>
    /\ caseCount = 3
    /\ \A i \in 1..3 : /\ decryptedCases[i].isAnalyzed
                       /\ decryptedCases[i].charge = "Theft"
                       /\ decryptedCases[i].sentence = 10 * i
    /\ decryptedCases[1].judgeId = "A"
    /\ decryptedCases[2].judgeId = "A"
    /\ decryptedCases[3].judgeId = "B"

(* C17 witness of duplicates and of a judge without cases: B, C, B has      *)
(* yielded twice B's average around a 0 for C.                              *)
C17_WitnessDuplicates ==
    /\ lastCall.op = "detectSentencingDisparities"
    /\ lastCall.args = <<"Theft", <<"B", "C", "B">>>>
    /\ lastCall.ret = <<(<<"B", "C", "B">>), (<<30, 0, 30>>)>>

(* What a view returns for the arguments args in the state after a step. *)
ViewResultAfter(op, args) ==
    CASE op = "getDecryptedCase" ->
            LET c == decryptedCases'[args[1]] IN
            <<c.charge, c.sentence, c.judgeId, c.isAnalyzed>>
      [] op = "calculateSentencingStats" ->
            calculateSentencingStatsIn(args[1], caseCount', decryptedCases')
      [] op = "detectSentencingDisparities" ->
            detectSentencingDisparitiesIn(args[1], args[2], caseCount',
                                          decryptedCases')

ViewOps == {"getDecryptedCase", "calculateSentencingStats",
            "detectSentencingDisparities"}

(* C18: getDecryptedCase, calculateSentencingStats and                      *)
(* detectSentencingDisparities are pure reads: a call leaves storage, the   *)
(* oracle's requests and the event log as they were, and the same call      *)
(* made again in the state it leaves returns the identical result.          *)
C18_ViewsArePureReads ==
    [][lastCall'.op \in ViewOps
          => /\ UNCHANGED <<storage, oracleRequests, now, finalizedRequests>>
             /\ emitted' = <<>>
             /\ lastCall'.result = "ok"
             /\ ViewResultAfter(lastCall'.op, lastCall'.args) = lastCall'.ret
      ]_vars

(* C18 witness: each of the three views has been called on a ledger with an *)
(* analyzed case and has returned it or its sentence.                       *)
C18_Witness ==
    /\ \E i \in 1..caseCount : decryptedCases[i].isAnalyzed
    /\ \/ /\ lastCall.op = "getDecryptedCase"
          /\ lastCall.ret[4]
       \/ /\ lastCall.op = "calculateSentencingStats"
          /\ lastCall.ret[3] > 0
       \/ /\ lastCall.op = "detectSentencingDisparities"
          /\ Len(lastCall.ret[2]) > 0
          /\ lastCall.ret[2][1] > 0

----------------------------------------------------------------------------
(* A delivery of analyzeCase for request r with a valid proof and a         *)
(* well-formed cleartext exists, and every such delivery succeeds.          *)
Retryable(r) ==
    /\ \E ct \in Cleartexts : OracleSigns(r, ct) /\ DecodesAsCase(ct)
    /\ \A ct \in Cleartexts :
          (OracleSigns(r, ct) /\ DecodesAsCase(ct))
             => analyzeCaseResult(r, ct, TRUE) = "ok"

FailedCallbackResults == {"ProofInvalid", "DecodeError"}

(* C19 as stated: an analyzeCase that fails with ProofInvalid or            *)
(* DecodeError leaves the target case in AnalysisRequested and the pending  *)
(* request in place, so that a later analyzeCase for the same requestId     *)
(* with a valid proof and a well-formed cleartext succeeds: right after the *)
(* failure, and still after one more step that is no callback of that       *)
(* request.                                                                 *)
C19_FailedCallbackRetrySucceeds ==
    [][\A r \in RequestIdInputs :
          LET target == requestToCaseId[r] IN
          target \in 1..caseCount
             => /\ (/\ lastCall'.op = "analyzeCase"
                    /\ lastCall'.id = r
                    /\ lastCall'.result \in FailedCallbackResults)
                      => /\ UNCHANGED <<storage, oracleRequests, finalizedRequests>>
                         /\ CaseState(target)' = "AnalysisRequested"
                         /\ Retryable(r)'
                /\ (/\ lastCall.op = "analyzeCase"
                    /\ lastCall.id = r
                    /\ lastCall.result \in FailedCallbackResults
                    /\ ~(lastCall'.op = "analyzeCase" /\ lastCall'.id = r))
                      => Retryable(r)'
      ]_vars

(* C19 amended: the failing analyzeCase leaves the target case in           *)
(* AnalysisRequested and the pending request in place, and a later          *)
(* analyzeCase for the same requestId with a valid proof and a well-formed  *)
(* cleartext succeeds for as long as the case has not been analyzed         *)
(* through another request: a recorded request is never overwritten, and    *)
(* while its case is unanalyzed the case is in AnalysisRequested and the    *)
(* request retryable.                                                       *)
C19_FailedCallbackRetryWhileUnanalyzed ==
    /\ [](\A r \in RequestIdInputs :
             LET target == requestToCaseId[r] IN
             (target \in 1..caseCount /\ ~decryptedCases[target].isAnalyzed)
                => /\ CaseState(target) = "AnalysisRequested"
                   /\ Retryable(r))
    /\ [][\A r \in RequestIdInputs :
             LET target == requestToCaseId[r] IN
             /\ target # 0 => requestToCaseId'[r] = target
             /\ (/\ lastCall'.op = "analyzeCase"
                 /\ lastCall'.id = r
                 /\ lastCall'.result \in FailedCallbackResults
                 /\ target \in 1..caseCount)
                   => /\ UNCHANGED <<storage, oracleRequests, finalizedRequests>>
                      /\ ~decryptedCases'[target].isAnalyzed
       ]_vars

(* C19 witness: a callback has failed on its proof for a submitted case     *)
(* that stays in AnalysisRequested, its request retryable.                  *)
C19_Witness ==
    /\ lastCall.op = "analyzeCase"
    /\ lastCall.result = "ProofInvalid"
    /\ requestToCaseId[lastCall.id] \in 1..caseCount
    /\ CaseState(requestToCaseId[lastCall.id]) = "AnalysisRequested"
    /\ Retryable(lastCall.id)

(* C19 witness of the decoding failure: a signed cleartext of another       *)
(* schema has failed for a submitted case.                                  *)
C19_WitnessDecodeError ==
    /\ lastCall.op = "analyzeCase"
    /\ lastCall.result = "DecodeError"
    /\ requestToCaseId[lastCall.id] \in 1..caseCount
    /\ Retryable(lastCall.id)

(* C19 witness of the retry: the callback of a request has succeeded on a   *)
(* case whose other request is still recorded.                              *)
C19_WitnessRetried ==
    /\ lastCall.op = "analyzeCase"
    /\ lastCall.result = "ok"
    /\ requestToCaseId[lastCall.id] \in 1..caseCount

----------------------------------------------------------------------------
(* Arguments the queries are compared on around a mutating call. *)
LedgerChargeArgs == Charges \cup {""}
LedgerJudgeIdsArgs == {<<"A", "B">>, <<"">>}

(* C20: query results depend only on analyzed cases: a                      *)
(* submitEncryptedCase or requestSentencingAnalysis call, successful or     *)
(* not, leaves the results of calculateSentencingStats and                  *)
(* detectSentencingDisparities as they were for every argument, the         *)
(* empty-string charge included.  (The queries read caseCount and           *)
(* decryptedCases only, so a step that keeps both keeps every result.)      *)
C20_QueriesIgnoreUnanalyzedCases ==
    [][lastCall'.op \in {"submitEncryptedCase", "requestSentencingAnalysis"}
          => \/ UNCHANGED <<caseCount, decryptedCases>>
             \/ \A chargeType \in LedgerChargeArgs :
                   /\ calculateSentencingStatsIn(chargeType, caseCount',
                                                 decryptedCases')
                         = calculateSentencingStats(chargeType)
                   /\ \A judgeIds \in LedgerJudgeIdsArgs :
                         detectSentencingDisparitiesIn(chargeType, judgeIds,
                                                       caseCount', decryptedCases')
                            = detectSentencingDisparities(chargeType, judgeIds)
      ]_vars

(* C20 witness: a case has been submitted, and another requested, beside an *)
(* analyzed Theft case whose sentence the queries return.                   *)
C20_Witness ==
    /\ lastCall.op = "submitEncryptedCase"
    /\ lastCall.result = "ok"
    /\ caseCount = 2
    /\ ~decryptedCases[2].isAnalyzed
    /\ calculateSentencingStats("Theft") = <<10, 10, 10>>
    /\ calculateSentencingStats("") = <<0, Uint256Max, 0>>
    /\ detectSentencingDisparities("Theft", <<"A", "B">>)[2] # <<0, 0>>

C20_WitnessRequested ==
    /\ lastCall.op = "requestSentencingAnalysis"
    /\ lastCall.result = "ok"
    /\ lastCall.id \in 1..caseCount
    /\ ~decryptedCases[lastCall.id].isAnalyzed
    /\ calculateSentencingStats("Theft") = <<10, 10, 10>>

----------------------------------------------------------------------------
(* The ids whose projection a step turns from not analyzed to analyzed. *)
NewlyAnalyzed ==
    {i \in StorageIds : ~decryptedCases[i].isAnalyzed /\ decryptedCases'[i].isAnalyzed}

(* C21: judge accumulators change only in a successful analyzeCase: it adds *)
(* exactly one to the accumulator of the judge decoded from its cleartext   *)
(* and changes no other accumulator, and it is the step that turns exactly  *)
(* its target into Analyzed; every other call, and every failing call,      *)
(* leaves all accumulators unchanged and turns no projection into Analyzed. *)
C21_AccumulatorsChangeOnlyInFinalize ==
    [][IF lastCall'.op = "analyzeCase" /\ lastCall'.result = "ok"
       THEN LET j == lastCall'.cleartexts.judgeId
                target == requestToCaseId[lastCall'.id]
            IN /\ DecryptedJudgeStats'[j] = DecryptedJudgeStats[j] + 1
               /\ FHE_isInitialized(encryptedJudgeStats'[j])
               /\ \A k \in Judges \ {j} :
                     encryptedJudgeStats'[k] = encryptedJudgeStats[k]
               /\ NewlyAnalyzed = {target}
               /\ decryptedCases'[target].judgeId = j
       ELSE /\ encryptedJudgeStats' = encryptedJudgeStats
            /\ NewlyAnalyzed = {}
      ]_vars

(* C21 witness: a second successful analyzeCase has taken judge A's         *)
(* accumulator from one to two while B still has none.                      *)
C21_Witness ==
    /\ lastCall.op = "analyzeCase"
    /\ lastCall.result = "ok"
    /\ lastCall.cleartexts.judgeId = "A"
    /\ DecryptedJudgeStats["A"] = 2
    /\ ~FHE_isInitialized(encryptedJudgeStats["B"])

(* C21 witness of the frame: a successful decryptJudgeStats has left an     *)
(* initialized accumulator in place.                                        *)
C21_WitnessFrame ==
    /\ lastCall.op = "decryptJudgeStats"
    /\ lastCall.result = "ok"
    /\ DecryptedJudgeStats[lastCall.judge] = 1

----------------------------------------------------------------------------
(* C22: an accumulator is created, as an encrypted zero that is then        *)
(* incremented, by the first successful analyzeCase naming a judge, and     *)
(* that step appends the judge to judgeList; in every reachable state       *)
(* judgeList holds each judge with an initialized accumulator exactly once  *)
(* and no other entry, and no step removes or reorders entries.             *)
C22_JudgeListMatchesAccumulators ==
    /\ [](\A j \in Judges :
             Cardinality({i \in 1..Len(judgeList) : judgeList[i] = j})
                = IF FHE_isInitialized(encryptedJudgeStats[j]) THEN 1 ELSE 0)
    /\ [](\A i \in 1..Len(judgeList) : judgeList[i] \in Judges)
    /\ [][/\ Len(judgeList') >= Len(judgeList)
          /\ SubSeq(judgeList', 1, Len(judgeList)) = judgeList
          /\ \A j \in Judges :
                (~FHE_isInitialized(encryptedJudgeStats[j])
                    /\ FHE_isInitialized(encryptedJudgeStats'[j]))
                   => /\ lastCall'.op = "analyzeCase"
                      /\ lastCall'.result = "ok"
                      /\ lastCall'.cleartexts.judgeId = j
                      /\ encryptedJudgeStats'[j]
                            = FHE_add(FHE_asEuint32(0), FHE_asEuint32(1))
                      /\ judgeList' = Append(judgeList, j)
       ]_vars

(* C22 witness: B was analyzed first, A second, and a later analysis of an  *)
(* indexed judge has left the index as it was.                              *)
C22_Witness ==
    /\ judgeList = <<"B", "A">>
    /\ FHE_isInitialized(encryptedJudgeStats["A"])
    /\ FHE_isInitialized(encryptedJudgeStats["B"])

C22_WitnessSecondCase ==
    /\ judgeList = <<"A">>
    /\ DecryptedJudgeStats["A"] = 2

----------------------------------------------------------------------------
(* analyzeCase as a function of the projections and accumulators it is      *)
(* delivered on, for a callback with a valid proof: the pair after the      *)
(* call, unchanged where the call reverts.                                  *)
AnalyzeCaseStep(dCases, stats, requestId, cleartexts) ==
    LET caseId == requestToCaseId[requestId]
        dCase == DecodedCase(cleartexts)
    IN IF /\ caseId # 0
          /\ ~dCases[caseId].isAnalyzed
          /\ FHE_checkSignatures(requestId, cleartexts, TRUE)
          /\ DecodesAsCase(cleartexts)
       THEN <<[dCases EXCEPT ![caseId] = dCase],
              JudgeStatsAfterCase(stats, dCase.judgeId)>>
       ELSE <<dCases, stats>>

CasePayloads == {ct \in Cleartexts : DecodesAsCase(ct)}

(* Two callbacks that can both be delivered now, for different targets. *)
DeliverablePair(r1, ct1, r2, ct2) ==
    /\ r1 # r2
    /\ requestToCaseId[r1] # requestToCaseId[r2]
    /\ analyzeCaseResult(r1, ct1, TRUE) = "ok"
    /\ analyzeCaseResult(r2, ct2, TRUE) = "ok"
    /\ OracleSigns(r1, ct1)
    /\ OracleSigns(r2, ct2)

PlainCount(stats, j) == IF FHE_isInitialized(stats[j]) THEN FHE_decrypt(stats[j]) ELSE 0

(* C23: analyzeCase callbacks for different case ids are independently      *)
(* serializable: delivered in either order from any reachable state, two    *)
(* callbacks of different targets leave the same projections and the same   *)
(* accumulators, both take effect, and where they decode the same judge     *)
(* its accumulator ends two higher; every delivered callback with a valid   *)
(* proof is one such step.  (The statement is symmetric in the two          *)
(* callbacks, so pairs are taken with r1 < r2.)                             *)
C23_CallbacksCommute ==
    /\ [](\A r1, r2 \in RequestIdInputs :
             (/\ r1 < r2
              /\ requestToCaseId[r1] # 0
              /\ requestToCaseId[r2] # 0
              /\ requestToCaseId[r1] # requestToCaseId[r2])
             => \A ct1, ct2 \in CasePayloads :
                DeliverablePair(r1, ct1, r2, ct2)
                => LET a == AnalyzeCaseStep(decryptedCases, encryptedJudgeStats, r1, ct1)
                       ab == AnalyzeCaseStep(a[1], a[2], r2, ct2)
                       b == AnalyzeCaseStep(decryptedCases, encryptedJudgeStats, r2, ct2)
                       ba == AnalyzeCaseStep(b[1], b[2], r1, ct1)
                   IN /\ ab = ba
                      /\ ab[1][requestToCaseId[r1]] = DecodedCase(ct1)
                      /\ ab[1][requestToCaseId[r2]] = DecodedCase(ct2)
                      /\ ct1.judgeId = ct2.judgeId
                            => PlainCount(ab[2], ct1.judgeId)
                                  = PlainCount(encryptedJudgeStats, ct1.judgeId) + 2
                      /\ ct1.judgeId # ct2.judgeId
                            => /\ PlainCount(ab[2], ct1.judgeId)
                                     = PlainCount(encryptedJudgeStats, ct1.judgeId) + 1
                               /\ PlainCount(ab[2], ct2.judgeId)
                                     = PlainCount(encryptedJudgeStats, ct2.judgeId) + 1)
    /\ [][(lastCall'.op = "analyzeCase" /\ lastCall'.result = "ok")
             => <<decryptedCases', encryptedJudgeStats'>>
                   = AnalyzeCaseStep(decryptedCases, encryptedJudgeStats,
                                     lastCall'.id, lastCall'.cleartexts)
       ]_vars

(* C23 witness: the callbacks of two requests for two different cases, both *)
(* decoding judge A, have been delivered and A's accumulator holds two.     *)
C23_Witness ==
    /\ finalizedRequests = {1, 2}
    /\ requestToCaseId[1] # requestToCaseId[2]
    /\ \A r \in {1, 2} : /\ decryptedCases[requestToCaseId[r]].isAnalyzed
                         /\ decryptedCases[requestToCaseId[r]].judgeId = "A"
    /\ DecryptedJudgeStats["A"] = 2

(* C23 witness of the interleaving: two callbacks of different cases are    *)
(* deliverable in the same state.                                           *)
C23_WitnessInFlight ==
    \E ct \in CasePayloads : DeliverablePair(1, ct, 2, ct)

----------------------------------------------------------------------------
(* The recorded requests whose target is id. *)
RequestsOf(reqMap, id) == {r \in RequestIdInputs : reqMap[r] = id}

(* C24: a second requestSentencingAnalysis for a case in AnalysisRequested  *)
(* is not rejected: it succeeds, sends a second oracle request with the     *)
(* case's three handles and records a second pending request with the same  *)
(* target beside the first.                                                 *)
C24_DuplicateRequestAccepted ==
    [][\A id \in 1..caseCount :
          (/\ lastCall'.op = "requestSentencingAnalysis"
           /\ lastCall'.id = id
           /\ CaseState(id) = "AnalysisRequested")
          => /\ lastCall'.result = "ok"
             /\ oracleRequests' = Append(oracleRequests,
                   OracleRequest(CaseCiphertexts(id), "analyzeCase"))
             /\ RequestsOf(requestToCaseId', id)
                   = RequestsOf(requestToCaseId, id) \cup {NextRequestId}
             /\ NextRequestId \notin RequestsOf(requestToCaseId, id)
             /\ CaseStateIn(id, caseCount', decryptedCases', requestToCaseId')
                   = "AnalysisRequested"
      ]_vars

(* C24 witness: two requests are recorded for case 1, which is in           *)
(* AnalysisRequested, the second just accepted.                             *)
C24_Witness ==
    /\ lastCall.op = "requestSentencingAnalysis"
    /\ lastCall.result = "ok"
    /\ lastCall.id = 1
    /\ caseCount >= 1
    /\ CaseState(1) = "AnalysisRequested"
    /\ RequestsOf(requestToCaseId, 1) = {1, 2}
    /\ Len(oracleRequests) = 2
    /\ oracleRequests[1] = oracleRequests[2]

----------------------------------------------------------------------------
(* C25: of the analysis requests recorded for one case, at most one has a   *)
(* callback that succeeded, in whatever order they were delivered.          *)
C25_AtMostOneCallbackPerCase ==
    \A id \in 1..caseCount :
        Cardinality({r \in finalizedRequests : requestToCaseId[r] = id}) <= 1

(* The same for the cases all of whose requests carry the handles of the    *)
(* submitted record, that is, were made after the submission.               *)
AtMostOneCallbackPerSubmittedCase ==
    \A id \in 1..caseCount :
        (\A r \in RequestsOf(requestToCaseId, id) :
              oracleRequests[r].handles = CaseCiphertexts(id))
           => Cardinality({r \in finalizedRequests : requestToCaseId[r] = id}) <= 1

----------------------------------------------------------------------------
(* C26: a case leaves AnalysisRequested only through a successful           *)
(* analyzeCase for one of its recorded requests, which makes it Analyzed    *)
(* (no step times a request out, retries or cancels it, so without such a   *)
(* callback the case stays in AnalysisRequested); and where the oracle      *)
(* delivers valid callbacks fairly, every case in AnalysisRequested is      *)
(* eventually Analyzed.                                                     *)
C26_RequestedCaseLeavesOnlyByFinalize ==
    /\ [][\/ UNCHANGED <<caseCount, decryptedCases, requestToCaseId>>
          \/ \A id \in 1..caseCount :
                (/\ CaseState(id) = "AnalysisRequested"
                 /\ CaseStateIn(id, caseCount', decryptedCases', requestToCaseId')
                       # "AnalysisRequested")
                => /\ lastCall'.op = "analyzeCase"
                   /\ lastCall'.result = "ok"
                   /\ requestToCaseId[lastCall'.id] = id
                   /\ CaseStateIn(id, caseCount', decryptedCases',
                                  requestToCaseId') = "Analyzed"
       ]_vars
    /\ \A id \in 1..MaxCases :
          (CaseState(id) = "AnalysisRequested") ~> (CaseState(id) = "Analyzed")

(* C26 witness: a case that was in AnalysisRequested has been analyzed by   *)
(* the callback of its request.                                             *)
C26_Witness ==
    /\ lastCall.op = "analyzeCase"
    /\ lastCall.result = "ok"
    /\ requestToCaseId[lastCall.id] \in 1..caseCount
    /\ CaseState(requestToCaseId[lastCall.id]) = "Analyzed"

(* C26 witness of the waiting case: a case is in AnalysisRequested after a  *)
(* callback for it has failed.                                              *)
C26_WitnessWaiting ==
    /\ lastCall.op = "analyzeCase"
    /\ lastCall.result = "ProofInvalid"
    /\ requestToCaseId[lastCall.id] \in 1..caseCount
    /\ CaseState(requestToCaseId[lastCall.id]) = "AnalysisRequested"


----------------------------------------------------------------------------
(* C27 *)

(* The requests issued by requestJudgeStatsDecryption.                      *)
StatsRequests ==
    {r \in 1..Len(oracleRequests) : oracleRequests[r].selector = "decryptJudgeStats"}

(* The judge decryptJudgeStats resolves request r to (lines 145-146).       *)
ResolvedJudge(r) == getJudgeFromHash(requestToCaseId[r])

C27_WitnessNotFound ==
    /\ lastCall.op = "decryptJudgeStats"
    /\ lastCall.result = "NotFound"
    /\ lastCall.id \in 1..Len(oracleRequests)
    /\ lastCall.id \notin StatsRequests


----------------------------------------------------------------------------
(* C28, checked under QuerySpec *)

(* The sentences of the cases M in ascending order, a sentence as many      *)
(* times as cases of M carry it.                                            *)
RECURSIVE SortedSentences(_)
SortedSentences(M) ==
    IF M = {} THEN <<>>
    ELSE LET i == CHOOSE k \in M :
                     \A m \in M : \/ SentenceOf[k] < SentenceOf[m]
                                  \/ SentenceOf[k] = SentenceOf[m] /\ k <= m
         IN <<SentenceOf[i]>> \o SortedSentences(M \ {i})

(* The ledger that holds the multiset of matching sentences of the current  *)
(* ledger and nothing else: one analyzed case of charge chargeType per      *)
(* matching case, in ascending order of sentence, under ids 1, 2, ...       *)
CanonicalLedger(chargeType) ==
    LET sorted == SortedSentences(MatchingCases(chargeType)) IN
    [i \in 1..Len(sorted) |->
        DecodedCase(CaseCleartext(chargeType, sorted[i], "A"))]

(* C28: calculateSentencingStats depends only on the multiset of sentences  *)
(* of the analyzed cases matching chargeType: what it returns on a ledger   *)
(* is what it returns on the ledger that holds that multiset alone, sorted, *)
(* under other ids; so two ledgers with the same multiset get the same      *)
(* result, whatever their ids, order, or other cases in between.            *)
C28_StatsDependOnMultisetOnly ==
    [][lastCall'.op = "calculateSentencingStats"
          => LET chargeType == lastCall'.args[1]
                 canonical == CanonicalLedger(chargeType)
             IN lastCall'.ret =
                   calculateSentencingStatsIn(chargeType, Len(canonical), canonical)
      ]_vars

(* The view has answered on a ledger whose matching cases are scanned in    *)
(* descending order of sentence with a non-matching case between them.      *)
C28_Witness ==
    /\ lastCall.op = "calculateSentencingStats"
    /\ lastCall.args = <<"Theft">>
    /\ lastCall.ret = <<20, 10, 30>>
    /\ caseCount = 3
    /\ decryptedCases[1] = DecodedCase(CaseCleartext("Theft", 30, "B"))
    /\ ~(decryptedCases[2].isAnalyzed /\ decryptedCases[2].charge = "Theft")
    /\ decryptedCases[3] = DecodedCase(CaseCleartext("Theft", 10, "A"))
    /\ CanonicalLedger("Theft") # [i \in 1..caseCount |-> decryptedCases[i]]

(* The same result on a ledger of two matching cases only, in the other     *)
(* order.                                                                   *)
C28_WitnessOtherLedger ==
    /\ lastCall.op = "calculateSentencingStats"
    /\ lastCall.args = <<"Theft">>
    /\ lastCall.ret = <<20, 10, 30>>
    /\ caseCount = 2
    /\ decryptedCases[1] = DecodedCase(CaseCleartext("Theft", 10, "A"))
    /\ decryptedCases[2] = DecodedCase(CaseCleartext("Theft", 30, "B"))


----------------------------------------------------------------------------
(* C29 *)

(* What a successful requestSentencingAnalysis(caseId) has done in a step.  *)
RequestAnalysisEffect(caseId) ==
    /\ oracleRequests' = Append(oracleRequests,
          OracleRequest(<<FHE_toBytes32(encryptedCases[caseId].encryptedCharge),
                          FHE_toBytes32(encryptedCases[caseId].encryptedSentence),
                          FHE_toBytes32(encryptedCases[caseId].encryptedJudgeId)>>,
                        "analyzeCase"))
    /\ requestToCaseId'[Len(oracleRequests) + 1] = caseId
    /\ \A r \in RequestIdInputs \ {Len(oracleRequests) + 1} :
          requestToCaseId'[r] = requestToCaseId[r]
    /\ CaseStateIn(caseId, caseCount', decryptedCases', requestToCaseId')
          = "AnalysisRequested"
    /\ emitted' = <<Event("AnalysisRequested", caseId, 0)>>
    /\ UNCHANGED <<caseCount, encryptedCases, decryptedCases,
                   encryptedJudgeStats, judgeList>>

(* C29: a successful requestSentencingAnalysis(caseId) forwards the case's  *)
(* three handles to the oracle, records the returned request id for caseId, *)
(* leaves the case in AnalysisRequested and emits AnalysisRequested(caseId),*)
(* and changes no projection, no other case, no accumulator and no other    *)
(* recorded request.                                                        *)
C29_RequestAnalysisEffectAndFrame ==
    [][(lastCall'.op = "requestSentencingAnalysis" /\ lastCall'.result = "ok")
          => RequestAnalysisEffect(lastCall'.id)
      ]_vars

(* The same for the requests made for a submitted case.                     *)
RequestAnalysisEffectOnSubmittedCase ==
    [][(/\ lastCall'.op = "requestSentencingAnalysis"
        /\ lastCall'.result = "ok"
        /\ lastCall'.id \in 1..caseCount)
          => RequestAnalysisEffect(lastCall'.id)
      ]_vars

(* A request has succeeded for a submitted case beside an analyzed one.     *)
RequestAnalysisOnSubmittedCaseReached ==
    /\ lastCall.op = "requestSentencingAnalysis"
    /\ lastCall.result = "ok"
    /\ lastCall.id \in 1..caseCount
    /\ CaseState(lastCall.id) = "AnalysisRequested"
    /\ \E other \in 1..caseCount : CaseState(other) = "Analyzed"


----------------------------------------------------------------------------
(* C30 *)

(* Step a comes before step b in the most recent call.                      *)
StepBefore(a, b) ==
    \E i, k \in 1..Len(lastCall.steps) :
        /\ i < k
        /\ lastCall.steps[i] = a
        /\ lastCall.steps[k] = b

(* Each successful analyzeCase emits CaseAnalyzed once, for its case; a     *)
(* failing one emits nothing; no other call emits it; every projection      *)
(* that becomes analyzed has its event.                                     *)
CaseAnalyzedEmission ==
    /\ lastCall'.op = "analyzeCase"
          => emitted' = IF lastCall'.result = "ok"
                        THEN <<Event("CaseAnalyzed", requestToCaseId[lastCall'.id], 0)>>
                        ELSE <<>>
    /\ (\E k \in 1..Len(emitted') : emitted'[k].name = "CaseAnalyzed")
          => lastCall'.op = "analyzeCase" /\ lastCall'.result = "ok"
    /\ \/ UNCHANGED decryptedCases
       \/ \A id \in StorageIds :
             (decryptedCases'[id].isAnalyzed /\ ~decryptedCases[id].isAnalyzed)
                => emitted' = <<Event("CaseAnalyzed", id, 0)>>

(* C30: in a successful analyzeCase the cleartext is decoded, then the      *)
(* projection is written with isAnalyzed set, then CaseAnalyzed is emitted, *)
(* and only then the judge's accumulator is updated; CaseAnalyzed is        *)
(* emitted once per case becoming analyzed and never by a failing callback. *)
C30_FinalizeStepOrder ==
    /\ []((lastCall.op = "analyzeCase" /\ lastCall.result = "ok")
             => /\ StepBefore("decode", "writeProjection")
                /\ StepBefore("writeProjection", "emitCaseAnalyzed")
                /\ StepBefore("emitCaseAnalyzed", "updateJudgeStats"))
    /\ [][CaseAnalyzedEmission]_vars

(* The order the contract has: decode, projection, accumulator, event.      *)
FinalizeStepOrderInSource ==
    /\ []((lastCall.op = "analyzeCase" /\ lastCall.result = "ok")
             => /\ StepBefore("decode", "writeProjection")
                /\ StepBefore("writeProjection", "updateJudgeStats")
                /\ StepBefore("updateJudgeStats", "emitCaseAnalyzed"))
    /\ [][CaseAnalyzedEmission]_vars

(* A callback has succeeded: its event is emitted and the accumulator of    *)
(* its judge exists.                                                        *)
FinalizeStepOrderReached ==
    /\ lastCall.op = "analyzeCase"
    /\ lastCall.result = "ok"
    /\ emitted = <<Event("CaseAnalyzed", requestToCaseId[lastCall.id], 0)>>
    /\ FHE_isInitialized(encryptedJudgeStats[decryptedCases[requestToCaseId[lastCall.id]].judgeId])


----------------------------------------------------------------------------
(* C31 *)

(* The requests issued by requestSentencingAnalysis.                        *)
CaseRequests ==
    {r \in 1..Len(oracleRequests) : oracleRequests[r].selector = "analyzeCase"}

(* C31: every id whose projection is marked analyzed was assigned by a      *)
(* submit (it lies in 1..caseCount) and has a request recorded for it by a  *)
(* successful requestSentencingAnalysis; and a submit never assigns an id   *)
(* whose projection is marked analyzed.                                     *)
C31_AnalyzedIdsAreSubmitted ==
    /\ [](\A id \in StorageIds :
             decryptedCases[id].isAnalyzed
                => /\ id \in 1..caseCount
                   /\ \E r \in CaseRequests : requestToCaseId[r] = id)
    /\ [][caseCount' # caseCount => ~decryptedCases[caseCount'].isAnalyzed]_vars

(* The part that does not depend on the id having been submitted: an        *)
(* analyzed projection has a request recorded for its id by                 *)
(* requestSentencingAnalysis, and is never under a judge hash.              *)
AnalyzedIdsWereRequested ==
    \A id \in StorageIds :
        decryptedCases[id].isAnalyzed
           => /\ id \in 1..MaxCases
              /\ \E r \in CaseRequests : requestToCaseId[r] = id

(* A projection is analyzed under an id no submit has assigned.             *)
AnalyzedBeforeSubmitReached ==
    /\ caseCount < MaxCases
    /\ decryptedCases[caseCount + 1].isAnalyzed
    /\ lastCall.op = "analyzeCase"
    /\ lastCall.result = "ok"


(* No submit assigns an id whose projection is marked analyzed.             *)
SubmitNeverLandsOnAnalyzed ==
    [][caseCount' # caseCount => ~decryptedCases[caseCount'].isAnalyzed]_vars


----------------------------------------------------------------------------
(* C32 *)

C32_WitnessStatsCallback ==
    /\ lastCall.op = "decryptJudgeStats"
    /\ lastCall.id \in CaseRequests
    /\ lastCall.result = "NotFound"
    /\ judgeList # <<>>
    /\ lastCall.id \in finalizedRequests


----------------------------------------------------------------------------
(* C33 *)

(* The case records in state Analyzed whose projection names judge j.       *)
AnalyzedCasesOf(j) == {i \in AnalyzedCases : decryptedCases[i].judgeId = j}

(* C33: for every judge the decrypted accumulator equals the number of      *)
(* Analyzed cases whose projection names the judge, and the judge has no    *)
(* accumulator exactly when that number is zero.                            *)
C33_AccumulatorIsAnalyzedCountPerJudge ==
    \A j \in Judges :
        /\ DecryptedJudgeStats[j] = Cardinality(AnalyzedCasesOf(j))
        /\ ~FHE_isInitialized(encryptedJudgeStats[j])
              <=> Cardinality(AnalyzedCasesOf(j)) = 0

(* What holds of every judge: the accumulator is never below the number of  *)
(* Analyzed cases naming the judge, and an accumulator that exists counts   *)
(* at least one.                                                            *)
AccumulatorAtLeastAnalyzedCountPerJudge ==
    \A j \in Judges :
        /\ DecryptedJudgeStats[j] >= Cardinality(AnalyzedCasesOf(j))
        /\ FHE_isInitialized(encryptedJudgeStats[j]) => DecryptedJudgeStats[j] >= 1

(* A judge's accumulator counts a case that no case record carries.         *)
AccumulatorAboveAnalyzedCountReached ==
    \E j \in Judges :
        /\ DecryptedJudgeStats[j] = 2
        /\ Cardinality(AnalyzedCasesOf(j)) = 1


----------------------------------------------------------------------------
(* C34 *)

(* C34: a successful analyzeCase writes the projection of the target of its *)
(* request, with exactly the decoded charge, sentence and judge id and the  *)
(* analyzed flag, and leaves every other projection and every encrypted     *)
(* record as it was; the encrypted record of a submitted case is changed by *)
(* no later call: encryptedCases changes only in submitEncryptedCase, and   *)
(* only under the id that call assigns.                                     *)
C34_FinalizeWritesOnlyItsTarget ==
    [][/\ (lastCall'.op = "analyzeCase" /\ lastCall'.result = "ok")
             => LET target == requestToCaseId[lastCall'.id]
                    decoded == lastCall'.cleartexts
                IN /\ decryptedCases'[target] =
                         [charge |-> decoded.charge, sentence |-> decoded.sentence,
                          judgeId |-> decoded.judgeId, isAnalyzed |-> TRUE]
                   /\ \A id \in StorageIds \ {target} :
                         decryptedCases'[id] = decryptedCases[id]
                   /\ UNCHANGED encryptedCases
       /\ \/ UNCHANGED encryptedCases
          \/ /\ lastCall'.op = "submitEncryptedCase"
             /\ caseCount' = caseCount + 1
             /\ \A id \in StorageIds \ {caseCount'} :
                   encryptedCases'[id] = encryptedCases[id]
      ]_vars

(* The second of two submitted cases has been analyzed beside the first,    *)
(* which keeps its own projection, and both keep their encrypted records.   *)
C34_Witness ==
    /\ lastCall.op = "analyzeCase"
    /\ lastCall.result = "ok"
    /\ caseCount = 2
    /\ requestToCaseId[lastCall.id] = 2
    /\ decryptedCases[2] = DecodedCase(lastCall.cleartexts)
    /\ decryptedCases[1].isAnalyzed
    /\ decryptedCases[1].judgeId # decryptedCases[2].judgeId
    /\ \A id \in 1..2 : encryptedCases[id].id = id
                        /\ FHE_isInitialized(encryptedCases[id].encryptedCharge)

(* A request has succeeded for a submitted case beside an analyzed one: the *)
(* record still carries the timestamp of its submit.                        *)
C34_WitnessRecordKept ==
    /\ lastCall.op = "requestSentencingAnalysis"
    /\ lastCall.result = "ok"
    /\ lastCall.id \in 1..caseCount
    /\ encryptedCases[lastCall.id].timestamp \in Timestamps
    /\ \E other \in 1..caseCount : decryptedCases[other].isAnalyzed

============================================================================
